---------------------------- MODULE Spec2Model ----------------------------
(***************************************************************************)
(* A model of source/main.cpp of the helix demo: one window, one frame     *)
(* loop, and in every frame a parse + differentiate + print of the formula *)
(* "cos(x) + sin(2x)" whose result is drawn as text.                       *)
(*                                                                         *)
(* Strings are sequences of one-character strings, so that the printer and *)
(* the parser are computed character by character.  The algebra library    *)
(* (parse, diff, str) and the window library are not part of the           *)
(* repository; parse, diff and str are modelled from the specification     *)
(* (section 4.2) on the fragment it names: integers, symbols, + - *,       *)
(* parentheses, implicit multiplication, cos and sin.  An expression       *)
(* (RCP<const Basic>) is kept in the library's canonical form, a sum of    *)
(* terms: a set of [c, m] with c a non-zero integer coefficient and m a    *)
(* bag of atoms; an atom is a symbol or a function applied to an           *)
(* expression.                                                             *)
(***************************************************************************)
EXTENDS Integers, Sequences, FiniteSets, Bags, TLC

\* The largest number of frames a run of the model draws before the close
\* request must arrive.
MaxFrames == 3

-----------------------------------------------------------------------------
(* Characters *)

Digits == <<"0", "1", "2", "3", "4", "5", "6", "7", "8", "9">>

Letters == {"a", "b", "c", "d", "e", "f", "g", "h", "i", "j", "k", "l", "m",
            "n", "o", "p", "q", "r", "s", "t", "u", "v", "w", "x", "y", "z"}

Operators == {"+", "-", "*", "(", ")"}

IsDigit(ch) == \E d \in 1..10 : Digits[d] = ch

DigitVal(ch) == (CHOOSE d \in 1..10 : Digits[d] = ch) - 1

-----------------------------------------------------------------------------
(* Canonical expressions *)

Sym(name) == [kind |-> "sym", name |-> name, arg |-> {}]

Fn(name, arg) == [kind |-> "fn", name |-> name, arg |-> arg]

integer(n) == IF n = 0 THEN {} ELSE {[c |-> n, m |-> EmptyBag]}

FromAtom(a) == {[c |-> 1, m |-> SetToBag({a})]}

\* symbol("x"): the expression that is the free variable named `name`.
symbol(name) == FromAtom(Sym(name))

CoefOf(p, m) == IF \E t \in p : t.m = m THEN (CHOOSE t \in p : t.m = m).c ELSE 0

add(p, q) ==
    LET ms == {t.m : t \in p \cup q}
    IN  {[c |-> CoefOf(p, m) + CoefOf(q, m), m |-> m] :
            m \in {mm \in ms : CoefOf(p, mm) + CoefOf(q, mm) # 0}}

neg(p) == {[c |-> 0 - t.c, m |-> t.m] : t \in p}

MulTerm(t, q) == {[c |-> t.c * u.c, m |-> t.m (+) u.m] : u \in q}

RECURSIVE mul(_, _)
mul(p, q) ==
    IF p = {} THEN {}
    ELSE LET t == CHOOSE t \in p : TRUE
         IN  add(MulTerm(t, q), mul(p \ {t}, q))

\* cos(arg) and sin(arg), with the values at 0 folded as the library does.
cos(arg) == IF arg = {} THEN integer(1) ELSE FromAtom(Fn(<<"c", "o", "s">>, arg))

sin(arg) == IF arg = {} THEN integer(0) ELSE FromAtom(Fn(<<"s", "i", "n">>, arg))

-----------------------------------------------------------------------------
(* diff: the derivative with respect to the symbol x *)

RECURSIVE diff(_, _)
RECURSIVE DiffAtom(_, _)
RECURSIVE DiffMono(_, _, _)
RECURSIVE DiffTerms(_, _)

\* Chain rule through the trigonometric functions.
DiffAtom(a, x) ==
    IF a.kind = "sym"
    THEN (IF FromAtom(a) = x THEN integer(1) ELSE integer(0))
    ELSE IF a.name = <<"c", "o", "s">>
         THEN mul(neg(sin(a.arg)), diff(a.arg, x))
         ELSE mul(cos(a.arg), diff(a.arg, x))

\* Product rule over the atoms `as` of the monomial m.
DiffMono(m, as, x) ==
    IF as = {} THEN {}
    ELSE LET a == CHOOSE a \in as : TRUE
             rest == {[c |-> m[a], m |-> m (-) SetToBag({a})]}
         IN  add(mul(rest, DiffAtom(a, x)), DiffMono(m, as \ {a}, x))

\* Sum rule over the terms.
DiffTerms(p, x) ==
    IF p = {} THEN {}
    ELSE LET t == CHOOSE t \in p : TRUE
         IN  add(mul(integer(t.c), DiffMono(t.m, BagToSet(t.m), x)),
                 DiffTerms(p \ {t}, x))

diff(p, x) == DiffTerms(p, x)

-----------------------------------------------------------------------------
(* parse: tokens, then a recursive-descent parser of                        *)
(*   expr := term (("+" | "-") term)*      term := unary ("*" unary)*       *)
(*   unary := "-" unary | primary                                           *)
(*   primary := int | name | name "(" expr ")" | "(" expr ")"               *)

RECURSIVE NumEnd(_, _)
NumEnd(s, i) == IF i <= Len(s) /\ IsDigit(s[i]) THEN NumEnd(s, i + 1) ELSE i

RECURSIVE NameEnd(_, _)
NameEnd(s, i) ==
    IF i <= Len(s) /\ (s[i] \in Letters \/ IsDigit(s[i])) THEN NameEnd(s, i + 1) ELSE i

RECURSIVE NumVal(_, _, _, _)
NumVal(s, i, j, acc) ==
    IF i >= j THEN acc ELSE NumVal(s, i + 1, j, 10 * acc + DigitVal(s[i]))

Token(k, n, s) == [k |-> k, n |-> n, s |-> s]

\* The tokens of s from position i on.  A number directly followed by a
\* letter is an implicit multiplication: "2x" reads as 2 * x.
RECURSIVE Lex(_, _)
Lex(s, i) ==
    IF i > Len(s) THEN <<>>
    ELSE IF s[i] = " " THEN Lex(s, i + 1)
    ELSE IF IsDigit(s[i]) THEN
        LET j == NumEnd(s, i)
            implicit == j <= Len(s) /\ s[j] \in Letters
        IN  <<Token("int", NumVal(s, i, j, 0), <<>>)>>
            \o (IF implicit THEN <<Token("op", 0, <<"*">>)>> ELSE <<>>)
            \o Lex(s, j)
    ELSE IF s[i] \in Letters THEN
        LET j == NameEnd(s, i)
        IN  <<Token("id", 0, SubSeq(s, i, j - 1))>> \o Lex(s, j)
    ELSE IF s[i] \in Operators THEN <<Token("op", 0, <<s[i]>>)>> \o Lex(s, i + 1)
    ELSE <<Token("bad", 0, <<s[i]>>)>> \o Lex(s, i + 1)

\* A parse that failed: the library throws ParseError.
ParseError == [ok |-> FALSE, val |-> {}, pos |-> 0]

Parsed(val, pos) == [ok |-> TRUE, val |-> val, pos |-> pos]

IsOp(ts, i, ch) == i <= Len(ts) /\ ts[i].k = "op" /\ ts[i].s = <<ch>>

RECURSIVE ParseExpr(_, _)
RECURSIVE ParseExprRest(_, _, _)
RECURSIVE ParseTerm(_, _)
RECURSIVE ParseTermRest(_, _, _)
RECURSIVE ParseUnary(_, _)
RECURSIVE ParsePrimary(_, _)

ParsePrimary(ts, i) ==
    IF i > Len(ts) THEN ParseError
    ELSE IF ts[i].k = "int" THEN Parsed(integer(ts[i].n), i + 1)
    ELSE IF ts[i].k = "id" THEN
        IF IsOp(ts, i + 1, "(")
        THEN LET a == ParseExpr(ts, i + 2)
             IN  IF a.ok /\ IsOp(ts, a.pos, ")")
                 THEN IF ts[i].s = <<"c", "o", "s">> THEN Parsed(cos(a.val), a.pos + 1)
                      ELSE IF ts[i].s = <<"s", "i", "n">> THEN Parsed(sin(a.val), a.pos + 1)
                      ELSE ParseError
                 ELSE ParseError
        ELSE Parsed(symbol(ts[i].s), i + 1)
    ELSE IF IsOp(ts, i, "(")
    THEN LET a == ParseExpr(ts, i + 1)
         IN  IF a.ok /\ IsOp(ts, a.pos, ")") THEN Parsed(a.val, a.pos + 1) ELSE ParseError
    ELSE ParseError

ParseUnary(ts, i) ==
    IF IsOp(ts, i, "-")
    THEN LET r == ParseUnary(ts, i + 1)
         IN  IF r.ok THEN Parsed(neg(r.val), r.pos) ELSE ParseError
    ELSE ParsePrimary(ts, i)

ParseTermRest(ts, acc, i) ==
    IF IsOp(ts, i, "*")
    THEN LET r == ParseUnary(ts, i + 1)
         IN  IF r.ok THEN ParseTermRest(ts, mul(acc, r.val), r.pos) ELSE ParseError
    ELSE Parsed(acc, i)

ParseTerm(ts, i) ==
    LET r == ParseUnary(ts, i)
    IN  IF r.ok THEN ParseTermRest(ts, r.val, r.pos) ELSE ParseError

ParseExprRest(ts, acc, i) ==
    IF IsOp(ts, i, "+") \/ IsOp(ts, i, "-")
    THEN LET r == ParseTerm(ts, i + 1)
         IN  IF r.ok
             THEN ParseExprRest(ts, add(acc, IF IsOp(ts, i, "+") THEN r.val ELSE neg(r.val)),
                                r.pos)
             ELSE ParseError
    ELSE Parsed(acc, i)

ParseExpr(ts, i) ==
    LET r == ParseTerm(ts, i)
    IN  IF r.ok THEN ParseExprRest(ts, r.val, r.pos) ELSE ParseError

\* parse(text): [ok |-> TRUE, val |-> the expression], or ParseError.
parse(s) ==
    LET ts == Lex(s, 1)
        r == ParseExpr(ts, 1)
    IN  IF (\A i \in 1..Len(ts) : ts[i].k # "bad") /\ r.ok /\ r.pos = Len(ts) + 1
        THEN Parsed(r.val, 0)
        ELSE ParseError

-----------------------------------------------------------------------------
(* str: the canonical printer *)

RECURSIVE IntStr(_)
IntStr(n) ==
    IF n < 10 THEN <<Digits[n + 1]>> ELSE IntStr(n \div 10) \o <<Digits[(n % 10) + 1]>>

RECURSIVE str(_)
RECURSIVE StrMono(_, _)
RECURSIVE StrTerms(_, _)

StrAtom(a) ==
    IF a.kind = "sym" THEN a.name ELSE a.name \o <<"(">> \o str(a.arg) \o <<")">>

StrFactor(a, e) == IF e = 1 THEN StrAtom(a) ELSE StrAtom(a) \o <<"*", "*">> \o IntStr(e)

StrMono(m, as) ==
    LET a == CHOOSE a \in as : TRUE
    IN  StrFactor(a, m[a])
        \o (IF as = {a} THEN <<>> ELSE <<"*">> \o StrMono(m, as \ {a}))

StrAbsTerm(t) ==
    LET k == IF t.c < 0 THEN 0 - t.c ELSE t.c
    IN  IF t.m = EmptyBag THEN IntStr(k)
        ELSE IF k = 1 THEN StrMono(t.m, BagToSet(t.m))
        ELSE IntStr(k) \o <<"*">> \o StrMono(t.m, BagToSet(t.m))

StrTerms(p, first) ==
    IF p = {} THEN <<>>
    ELSE LET t == CHOOSE t \in p : TRUE
             sign == IF first THEN (IF t.c < 0 THEN <<"-">> ELSE <<>>)
                     ELSE (IF t.c < 0 THEN <<" ", "-", " ">> ELSE <<" ", "+", " ">>)
         IN  sign \o StrAbsTerm(t) \o StrTerms(p \ {t}, FALSE)

str(p) == IF p = {} THEN <<"0">> ELSE StrTerms(p, TRUE)

-----------------------------------------------------------------------------
(* main.cpp *)

\* Mutant: line 19 returns f instead of f->diff(x).
compute_derivative_NoDiff(expr, x) ==
    LET f == parse(expr)
    IN  IF f.ok THEN Parsed(f.val, 0) ELSE ParseError

\* Lines 14-20.  A ParseError thrown by parse leaves the function at line 16.
compute_derivative(expr, x) ==
    LET f == parse(expr)
    IN  IF f.ok THEN Parsed(diff(f.val, x), 0) ELSE ParseError

\* Line 35: the formula literal.
fxLiteral == <<"c", "o", "s", "(", "x", ")", " ", "+", " ", "s", "i", "n", "(", "2", "x", ")">>


\* Line 36: the differentiation variable, symbol("x").
xName == <<"x">>

\* Mutant: the negation of line 28 is missing.
LoopCond_Inverted(shouldClose) == shouldClose

\* Line 28: the frame loop runs while the close request is not seen.
LoopCond(shouldClose) == ~shouldClose

\* Mutant: the loop body catches what the evaluator throws and goes on to
\* EndDrawing.
HandlerFor_CatchAll(site) == "EndDrawing"

\* Lines 14-47 hold no try block: an exception thrown at any statement of
\* main or compute_derivative reaches std::terminate.
HandlerFor(site) == "terminated"

\* Line 37: str(*df_dx) is a temporary std::string.  It is destroyed at the
\* end of the full-expression that takes its c_str(), so its buffer is not
\* live in any later statement.
TemporaryOutlivesStatement == FALSE

\* What a read of `n` characters through a pointer to a freed buffer can give:
\* the old characters, or other bytes.
Garbage == <<"?">>

ReadFreed(chars) == {chars, Garbage}

VARIABLES
    pc,         \* the statement main executes next
    window,     \* the window: "Uninitialized", "Running" or "Terminated"
    targetFPS,  \* the rate given to SetTargetFPS, 0 before
    drawing,    \* TRUE between BeginDrawing and EndDrawing
    fx,         \* the local std::string fx, <<>> out of its scope
    df_dx,      \* the local df_dx: [set, val], set only in its scope
    strbuf,     \* the buffer of the temporary of line 37: [live, chars]
    df_dx_str,  \* the local pointer: "null", or "strbuf" (points into strbuf)
    exitCode,   \* the process's exit status, -1 while it runs
    trace,      \* history: the library calls made so far, in order
    results,    \* history: the value of df_dx of every frame
    strings,    \* history: the value of str(*df_dx) of every frame
    drawn       \* history: per DrawText call, [live, text]: whether the buffer
                \* it read was live, and the characters it rendered

vars == <<pc, window, targetFPS, drawing, fx, df_dx, strbuf, df_dx_str,
          exitCode, trace, results, strings, drawn>>

locals == <<fx, df_dx, strbuf, df_dx_str>>

history == <<results, strings, drawn>>

NoExpr == [set |-> FALSE, val |-> {}]

NoBuf == [live |-> FALSE, chars |-> <<>>]

RECURSIVE Count(_, _)
Count(seq, e) ==
    IF seq = <<>> THEN 0
    ELSE (IF Head(seq) = e THEN 1 ELSE 0) + Count(Tail(seq), e)

Call(name) == trace' = Append(trace, name)

Init ==
    /\ pc = "InitWindow"
    /\ window = "Uninitialized"
    /\ targetFPS = 0
    /\ drawing = FALSE
    /\ fx = <<>>
    /\ df_dx = NoExpr
    /\ strbuf = NoBuf
    /\ df_dx_str = "null"
    /\ exitCode = -1
    /\ trace = <<>>
    /\ results = <<>>
    /\ strings = <<>>
    /\ drawn = <<>>

\* Mutant: the call of line 25 is missing.
InitWindowStep_Omitted ==
    /\ pc = "InitWindow"
    /\ pc' = "SetTargetFPS"
    /\ UNCHANGED <<window, targetFPS, drawing, locals, exitCode, trace, history>>

\* Line 25
InitWindowStep ==
    /\ pc = "InitWindow"
    /\ Call("InitWindow")
    /\ window' = "Running"
    /\ pc' = "SetTargetFPS"
    /\ UNCHANGED <<targetFPS, drawing, locals, exitCode, history>>

\* Line 26
SetTargetFPSStep ==
    /\ pc = "SetTargetFPS"
    /\ Call("SetTargetFPS")
    /\ targetFPS' = 60
    /\ pc' = "WindowShouldClose"
    /\ UNCHANGED <<window, drawing, locals, exitCode, history>>

\* Line 28: the poll of the close request.  The request is the user's; a run
\* of the model gets it after MaxFrames frames at the latest.
WindowShouldCloseStep ==
    /\ pc = "WindowShouldClose"
    /\ \E shouldClose \in BOOLEAN :
        /\ shouldClose \/ Count(trace, "BeginDrawing") < MaxFrames
        /\ Call(IF shouldClose THEN "WindowShouldClose=true" ELSE "WindowShouldClose=false")
        /\ pc' = IF LoopCond(shouldClose) THEN "BeginDrawing" ELSE "CloseWindow"
    /\ UNCHANGED <<window, targetFPS, drawing, locals, exitCode, history>>

\* Line 30
BeginDrawingStep ==
    /\ pc = "BeginDrawing"
    /\ Call("BeginDrawing")
    /\ drawing' = TRUE
    /\ pc' = "ClearBackground"
    /\ UNCHANGED <<window, targetFPS, locals, exitCode, history>>

\* Mutant: the call of line 32 is missing.
ClearBackgroundStep_Omitted ==
    /\ pc = "ClearBackground"
    /\ pc' = "DrawRectangle"
    /\ UNCHANGED <<window, targetFPS, drawing, locals, exitCode, trace, history>>

\* Line 32
ClearBackgroundStep ==
    /\ pc = "ClearBackground"
    /\ Call("ClearBackground")
    /\ pc' = "DrawRectangle"
    /\ UNCHANGED <<window, targetFPS, drawing, locals, exitCode, history>>

\* Mutant: a `continue` follows line 33.
DrawRectangleStep_Continue ==
    /\ pc = "DrawRectangle"
    /\ Call("DrawRectangle")
    /\ pc' = "WindowShouldClose"
    /\ UNCHANGED <<window, targetFPS, drawing, locals, exitCode, history>>

\* Line 33
DrawRectangleStep ==
    /\ pc = "DrawRectangle"
    /\ Call("DrawRectangle")
    /\ pc' = "fx"
    /\ UNCHANGED <<window, targetFPS, drawing, locals, exitCode, history>>

\* Line 35
FxStep ==
    /\ pc = "fx"
    /\ fx' = fxLiteral
    /\ pc' = "compute_derivative"
    /\ UNCHANGED <<window, targetFPS, drawing, df_dx, strbuf, df_dx_str,
                   exitCode, trace, history>>

\* An exception leaves the statement `site`: control goes to its handler;
\* with none, std::terminate aborts the process (SIGABRT, status 134).
Throw(site) ==
    /\ pc' = HandlerFor(site)
    /\ exitCode' = IF HandlerFor(site) = "terminated" THEN 134 ELSE exitCode
    /\ UNCHANGED <<window, targetFPS, drawing, locals, history>>

\* Mutant: df_dx is kept from frame to frame and differentiated again.
ComputeDerivativeStep_Carried ==
    /\ pc = "compute_derivative"
    /\ Call("compute_derivative")
    /\ LET r == IF results = <<>>
                THEN compute_derivative(fx, symbol(xName))
                ELSE Parsed(diff(results[Len(results)], symbol(xName)), 0)
       IN  /\ df_dx' = [set |-> TRUE, val |-> r.val]
           /\ results' = Append(results, r.val)
           /\ pc' = "str"
           /\ UNCHANGED <<window, targetFPS, drawing, fx, strbuf, df_dx_str,
                          exitCode, strings, drawn>>

\* Line 36.  The call throws when parse throws ParseError, and when the
\* algebra library fails for want of a resource (libraryFails).
ComputeDerivativeStep ==
    /\ pc = "compute_derivative"
    /\ Call("compute_derivative")
    /\ \E libraryFails \in BOOLEAN :
        LET r == compute_derivative(fx, symbol(xName))
        IN  IF libraryFails \/ ~r.ok
            THEN Throw("compute_derivative")
            ELSE /\ df_dx' = [set |-> TRUE, val |-> r.val]
                 /\ results' = Append(results, r.val)
                 /\ pc' = "str"
                 /\ UNCHANGED <<window, targetFPS, drawing, fx, strbuf, df_dx_str,
                                exitCode, strings, drawn>>

\* Line 37: the temporary string is built, its c_str() is stored, and the
\* temporary is destroyed with the statement.
StrStep ==
    /\ pc = "str"
    /\ Call("str")
    /\ \E libraryFails \in BOOLEAN :
        IF libraryFails
        THEN Throw("str")
        ELSE /\ strbuf' = [live |-> TemporaryOutlivesStatement, chars |-> str(df_dx.val)]
             /\ df_dx_str' = "strbuf"
             /\ strings' = Append(strings, str(df_dx.val))
             /\ pc' = "DrawText"
             /\ UNCHANGED <<window, targetFPS, drawing, fx, df_dx, exitCode,
                            results, drawn>>

\* Line 39: DrawText reads the characters df_dx_str points to.  Reading a
\* buffer that is no longer live is undefined: it gives the old characters,
\* other bytes, or a fault that kills the process (SIGSEGV, status 139).
DrawTextStep ==
    /\ pc = "DrawText"
    /\ Call("DrawText")
    /\ IF strbuf.live
       THEN /\ drawn' = Append(drawn, [live |-> TRUE, text |-> strbuf.chars])
            /\ pc' = "EndDrawing"
            /\ UNCHANGED exitCode
       ELSE \E fault \in BOOLEAN :
                IF fault
                THEN /\ pc' = "crashed"
                     /\ exitCode' = 139
                     /\ UNCHANGED drawn
                ELSE /\ \E text \in ReadFreed(strbuf.chars) :
                            drawn' = Append(drawn, [live |-> FALSE, text |-> text])
                     /\ pc' = "EndDrawing"
                     /\ UNCHANGED exitCode
    /\ UNCHANGED <<window, targetFPS, drawing, locals, results, strings>>

\* Mutant: a `break` follows line 41.
EndDrawingStep_Break ==
    /\ pc = "EndDrawing"
    /\ Call("EndDrawing")
    /\ drawing' = FALSE
    /\ fx' = <<>>
    /\ df_dx' = NoExpr
    /\ strbuf' = NoBuf
    /\ df_dx_str' = "null"
    /\ pc' = "CloseWindow"
    /\ UNCHANGED <<window, targetFPS, exitCode, history>>

\* Lines 41-42: EndDrawing, then the locals of the loop body go out of scope.
EndDrawingStep ==
    /\ pc = "EndDrawing"
    /\ Call("EndDrawing")
    /\ drawing' = FALSE
    /\ fx' = <<>>
    /\ df_dx' = NoExpr
    /\ strbuf' = NoBuf
    /\ df_dx_str' = "null"
    /\ pc' = "WindowShouldClose"
    /\ UNCHANGED <<window, targetFPS, exitCode, history>>

\* Mutant: the call of line 44 is missing.
CloseWindowStep_Omitted ==
    /\ pc = "CloseWindow"
    /\ pc' = "return"
    /\ UNCHANGED <<window, targetFPS, drawing, locals, exitCode, trace, history>>

\* Line 44
CloseWindowStep ==
    /\ pc = "CloseWindow"
    /\ Call("CloseWindow")
    /\ window' = "Terminated"
    /\ pc' = "return"
    /\ UNCHANGED <<targetFPS, drawing, locals, exitCode, history>>

\* Line 46
ReturnStep ==
    /\ pc = "return"
    /\ exitCode' = 0
    /\ pc' = "exited"
    /\ UNCHANGED <<window, targetFPS, drawing, locals, trace, history>>

Next ==
    \/ InitWindowStep
    \/ SetTargetFPSStep
    \/ WindowShouldCloseStep
    \/ BeginDrawingStep
    \/ ClearBackgroundStep
    \/ DrawRectangleStep
    \/ FxStep
    \/ ComputeDerivativeStep
    \/ StrStep
    \/ DrawTextStep
    \/ EndDrawingStep
    \/ CloseWindowStep
    \/ ReturnStep

Spec == Init /\ [][Next]_vars

\* One thread runs main, so a statement that can run does run.  Fairness is
\* stated for the statements the liveness properties rest on: the first
\* statement of the loop body and the two statements after the loop.
FairSpec ==
    /\ Spec
    /\ WF_vars(BeginDrawingStep)
    /\ WF_vars(CloseWindowStep)
    /\ WF_vars(ReturnStep)

-----------------------------------------------------------------------------
(* Properties *)

PollTrue == "WindowShouldClose=true"

PollFalse == "WindowShouldClose=false"

Polls == {PollTrue, PollFalse}

DrawOps == {"BeginDrawing", "ClearBackground", "DrawRectangle", "DrawText", "EndDrawing"}

EvaluatorOps == {"compute_derivative", "str"}

\* The drawing calls of one frame, in the order of lines 30-41.
FrameOrder == <<"BeginDrawing", "ClearBackground", "DrawRectangle", "DrawText", "EndDrawing">>

\* All calls of one iteration after its poll, in the order of lines 30-41.
FrameCalls == <<"BeginDrawing", "ClearBackground", "DrawRectangle",
                "compute_derivative", "str", "DrawText", "EndDrawing">>

LastCall == IF trace = <<>> THEN "" ELSE trace[Len(trace)]

CountBefore(i, e) == Count(SubSeq(trace, 1, i - 1), e)

IsDrawOp(e) == e \in DrawOps

IsPoll(e) == e \in Polls

C2_DrawOnlyWhileRunning ==
    /\ \A i \in 1..Len(trace) :
          trace[i] \in DrawOps =>
              /\ \E j \in 1..(i - 1) : trace[j] = "InitWindow"
              /\ \A j \in 1..(i - 1) : trace[j] # "CloseWindow"
    /\ (LastCall \in DrawOps => window = "Running")
    /\ (drawing => window = "Running")

C2_Witness == LastCall = "DrawText" /\ window = "Running" /\ drawing

\* C3: after a poll that returned true no call of a further iteration is made
\* (no drawing call, no evaluator call, no poll), and the next call is
\* CloseWindow.
C3_NoIterationAfterClose ==
    /\ \A i \in 1..Len(trace) :
          trace[i] = PollTrue =>
              /\ (i < Len(trace) => trace[i + 1] = "CloseWindow")
              /\ \A j \in (i + 1)..Len(trace) :
                    trace[j] \notin DrawOps \cup EvaluatorOps \cup Polls
    /\ (LastCall = PollTrue => pc = "CloseWindow")

C3_Witness ==
    /\ pc = "exited"
    /\ Count(trace, "EndDrawing") >= 1
    /\ \E i \in 1..Len(trace) : trace[i] = PollTrue /\ i < Len(trace)

\* C4: when DrawText is called the buffer it reads is live and holds the
\* display string of this frame's derivative, and what every DrawText call
\* rendered is that frame's display string.
C4_TextIsLiveDisplayString ==
    /\ (pc = "DrawText" => strbuf.live /\ strbuf.chars = str(df_dx.val))
    /\ \A i \in 1..Len(drawn) : drawn[i].live /\ drawn[i].text = strings[i]

\* The expected derivative of P4, parsed on its own.
expectedDerivative ==
    <<"-", "s", "i", "n", "(", "x", ")", " ", "+", " ",
      "2", "*", "c", "o", "s", "(", "2", "x", ")">>

\* C5: the derivative computed in every frame equals, in canonical form, the
\* parse of "-sin(x) + 2*cos(2x)".
C5_DerivativeCorrect ==
    /\ parse(expectedDerivative).ok
    /\ \A i \in 1..Len(results) : results[i] = parse(expectedDerivative).val
    /\ (df_dx.set => df_dx.val = parse(expectedDerivative).val)

C5_Witness == pc = "str" /\ df_dx.set /\ Len(results) = 1

InLoop ==
    {"WindowShouldClose", "BeginDrawing", "ClearBackground", "DrawRectangle", "fx",
     "compute_derivative", "str", "DrawText", "EndDrawing"}

AfterLoop == {"CloseWindow", "return", "exited"}

\* C7: a run returns 0 only after a poll returned true and CloseWindow
\* followed it; control passes from the loop to the statements after it only
\* at a poll that returns true; a poll that returns true leads to CloseWindow
\* and exit code 0; a poll that returns false leads to a new frame.
C7_CloseIsTheOnlyWayOut ==
    /\ [](exitCode = 0 <=> pc = "exited")
    /\ [](pc = "exited" =>
            \E i \in 1..(Len(trace) - 1) :
                trace[i] = PollTrue /\ trace[i + 1] = "CloseWindow")
    /\ [][(pc \in InLoop /\ pc' \in AfterLoop) =>
            (pc = "WindowShouldClose" /\ trace' = Append(trace, PollTrue))]_vars
    /\ (LastCall = PollTrue ~> (pc = "exited" /\ exitCode = 0 /\ window = "Terminated"))
    /\ \A n \in 0..MaxFrames :
          (LastCall = PollFalse /\ Count(trace, "BeginDrawing") = n)
              ~> (Count(trace, "BeginDrawing") = n + 1)

C7_Witness ==
    pc = "exited" /\ exitCode = 0 /\ Count(trace, "BeginDrawing") >= 2

\* The formula of P6.
malformedFormula ==
    <<"c", "o", "s", "(", "x", ")", " ", "+", "*", " ", "s", "i", "n", "(">>

EvaluatorFailed == pc \in EvaluatorOps /\ pc' \notin {"str", "DrawText"}

\* C8: a malformed formula makes compute_derivative throw ParseError; a step
\* in which an evaluator call throws ends the process abnormally (nothing
\* catches it); and in the terminated process the failed call is the last
\* call: no frame was started after it, the window was not closed and 0 was
\* not returned.
C8_EvaluatorFailureIsFatal ==
    /\ [](compute_derivative(malformedFormula, symbol(xName)) = ParseError)
    /\ [][EvaluatorFailed => pc' = "terminated" /\ exitCode' \notin {-1, 0}]_vars
    /\ [](pc = "terminated" =>
            /\ LastCall \in EvaluatorOps
            /\ exitCode \notin {-1, 0}
            /\ window = "Running")
    /\ [][pc = "terminated" => pc' = "terminated" /\ trace' = trace]_vars

C8_Witness ==
    pc = "terminated" /\ LastCall = "compute_derivative" /\ Count(trace, "EndDrawing") >= 1

DrawTrace == SelectSeq(trace, IsDrawOp)

\* C9: the drawing calls come in rounds of BeginDrawing, ClearBackground,
\* DrawRectangle, DrawText, EndDrawing, each once and in this order; a frame
\* is open exactly between a BeginDrawing and its EndDrawing; and no poll and
\* no CloseWindow is made while a frame is open.
C9_FramesBracketed ==
    /\ \A i \in 1..Len(DrawTrace) :
          DrawTrace[i] = FrameOrder[((i - 1) % Len(FrameOrder)) + 1]
    /\ (drawing <=> Count(trace, "BeginDrawing") = Count(trace, "EndDrawing") + 1)
    /\ (~drawing <=> Count(trace, "BeginDrawing") = Count(trace, "EndDrawing"))
    /\ \A i \in 1..Len(trace) :
          trace[i] \in Polls \cup {"CloseWindow"} =>
              CountBefore(i, "BeginDrawing") = CountBefore(i, "EndDrawing")

C9_Witness ==
    pc = "exited" /\ Count(trace, "EndDrawing") >= 2

PollTrace == SelectSeq(trace, IsPoll)

\* C10: between two consecutive polls lie exactly the calls of one frame, in
\* order and complete; no poll is made while a frame is open; only the last
\* poll returns true; and a run that returns has polled once more than it
\* completed frames.
C10_OnePollPerIteration ==
    /\ \A i, j \in 1..Len(trace) :
          (/\ i < j
           /\ trace[i] \in Polls
           /\ trace[j] \in Polls
           /\ \A k \in (i + 1)..(j - 1) : trace[k] \notin Polls)
          => trace[i] = PollFalse /\ SubSeq(trace, i + 1, j - 1) = FrameCalls
    /\ (pc = "WindowShouldClose" => ~drawing)
    /\ \A i \in 1..(Len(PollTrace) - 1) : PollTrace[i] = PollFalse
    /\ Len(PollTrace) <= Count(trace, "EndDrawing") + 1
    /\ (pc = "exited" =>
            /\ Len(PollTrace) = Count(trace, "EndDrawing") + 1
            /\ PollTrace[Len(PollTrace)] = PollTrue)

C10_Witness ==
    pc = "exited" /\ Count(trace, "EndDrawing") = 2 /\ Len(PollTrace) = 3

=============================================================================
